---------------------------- MODULE Spec2Model ----------------------------
(***************************************************************************)
(* A model of the jolin dense linear-algebra kernel (matrix algebra, LU    *)
(* decomposition with row-max pivoting, determinant, QR decomposition).    *)
(*                                                                         *)
(* Elements are binary floating-point numbers.  The library instantiates   *)
(* its element type with f32 and f64 only; the model keeps the arithmetic  *)
(* of those types (every operation returns the representable number        *)
(* nearest to the exact result, ties to even) and scales the significands  *)
(* down to Prec and WidePrec bits, a narrower and a wider element type as  *)
(* f32 and f64 are.  The exponent range is not modelled: there is no       *)
(* overflow and no underflow.  NaN is modelled (the QR functions divide    *)
(* 0 by 0 on a zero column); infinities are not: every divisor in the      *)
(* library is a pivot that passed the zero test or the norm of the vector  *)
(* it divides, so x / 0 with x # 0 does not arise.                         *)
(*                                                                         *)
(* A number is <<m, e>>, standing for m * 2^e, with m odd, or <<0, 0>>.    *)
(* This form is unique, so equality of numbers is equality of tuples.      *)
(* NaN is <<0, 1>>, which is the form of no number.                        *)
(***************************************************************************)
EXTENDS Integers, Sequences, FiniteSets, TLC

(***************************************************************************)
(* Bounds of the model.                                                    *)
(***************************************************************************)
\* Bits of significand of the two modelled element types (f32: 24, f64: 53).
Prec == 3
WidePrec == 6
\* Entries of the 1x1 and 2x2 inputs range over -MaxVal..MaxVal (and Awkward).
MaxVal == 1
\* The longest data vector given to new and from_vec.
MaxData == 5
\* The longest permutation given to permutation_order on its own.
MaxPerm == 4

\* The element type of the matrices in use, by the number of bits of its
\* significand.  A program works with one element type throughout.
VARIABLE digits

(***************************************************************************)
(* Integer helpers.                                                        *)
(***************************************************************************)
RECURSIVE Pow2(_)
Pow2(k) == IF k <= 0 THEN 1 ELSE 2 * Pow2(k - 1)

RECURSIVE BitLen(_)
BitLen(n) == IF n <= 0 THEN 0 ELSE 1 + BitLen(n \div 2)

IAbs(n) == IF n < 0 THEN -n ELSE n

ISgn(n) == IF n < 0 THEN -1 ELSE IF n > 0 THEN 1 ELSE 0

IMin(x, y) == IF x < y THEN x ELSE y

(***************************************************************************)
(* Numbers: exact operations on m * 2^e.                                   *)
(***************************************************************************)
RECURSIVE Norm(_, _)
Norm(m, e) ==
  IF m = 0 THEN <<0, 0>>
  ELSE IF m % 2 = 0 THEN Norm(m \div 2, e + 1)
  ELSE <<m, e>>

Zero == <<0, 0>>
One == <<1, 0>>
Num(n) == Norm(n, 0)

XNeg(x) == <<-x[1], x[2]>>

\* x + y with both significands brought to the exponent e.
XAddAt(x, y, e) == Norm(x[1] * Pow2(x[2] - e) + y[1] * Pow2(y[2] - e), e)

\* A zero operand has no exponent to bring the other operand to.
XAdd(x, y) ==
  IF x[1] = 0 THEN Norm(y[1], y[2])
  ELSE IF y[1] = 0 THEN Norm(x[1], x[2])
  ELSE XAddAt(x, y, IMin(x[2], y[2]))

XSub(x, y) == XAdd(x, XNeg(y))

XMul(x, y) == Norm(x[1] * y[1], x[2] + y[2])

(***************************************************************************)
(* Rounding to the element type: the nearest number with at most digits    *)
(* of significand, ties to the even significand (IEEE 754 default).        *)
(***************************************************************************)
\* q and a remainder r out of 2 * half: q or q + 1, whichever is nearer.
Nearest(q, r, half) ==
  IF r > half \/ (r = half /\ q % 2 = 1) THEN q + 1 ELSE q

\* The magnitude a loses its sh low bits.
RoundBits(sgn, a, sh, e) ==
  Norm(sgn * Nearest(a \div Pow2(sh), a % Pow2(sh), Pow2(sh - 1)), e + sh)

RoundMant(m, e) ==
  IF BitLen(IAbs(m)) <= digits THEN Norm(m, e)
  ELSE RoundBits(ISgn(m), IAbs(m), BitLen(IAbs(m)) - digits, e)

Rnd(x) == RoundMant(x[1], x[2])

(***************************************************************************)
(* The element contract (LikeNumber): +, -, *, /, unary -, abs, ordering.  *)
(***************************************************************************)
NaN == <<0, 1>>

IsNaN(x) == x = NaN

FAdd(x, y) == IF IsNaN(x) \/ IsNaN(y) THEN NaN ELSE Rnd(XAdd(x, y))

FSub(x, y) == IF IsNaN(x) \/ IsNaN(y) THEN NaN ELSE Rnd(XSub(x, y))

FMul(x, y) == IF IsNaN(x) \/ IsNaN(y) THEN NaN ELSE Rnd(XMul(x, y))

\* a / b to k fractional bits, doubled, with a sticky bit for the remainder.
QuotSticky(a, b, k) ==
  2 * ((a * Pow2(k)) \div b) + (IF (a * Pow2(k)) % b = 0 THEN 0 ELSE 1)

FDivBits(x, y, k) ==
  RoundMant(ISgn(x[1]) * ISgn(y[1]) * QuotSticky(IAbs(x[1]), IAbs(y[1]), k),
            x[2] - y[2] - k - 1)

\* x / y: NaN for a NaN operand and for y = 0; otherwise the quotient is
\* computed to digits + 3 bits or more and then rounded.
FDiv(x, y) ==
  IF IsNaN(x) \/ IsNaN(y) \/ y = Zero THEN NaN
  ELSE FDivBits(x, y, digits + 2 + BitLen(IAbs(y[1])))

FNeg(x) == XNeg(x)

\* Every comparison with NaN is false.
FLt(x, y) == ~IsNaN(x) /\ ~IsNaN(y) /\ XSub(x, y)[1] < 0

FGt(x, y) == ~IsNaN(x) /\ ~IsNaN(y) /\ XSub(x, y)[1] > 0

FGe(x, y) == ~IsNaN(x) /\ ~IsNaN(y) /\ XSub(x, y)[1] >= 0

\* sign of the element contract: 1 when self >= 0, otherwise -1.
FSign(x) == IF FGe(x, Zero) THEN One ELSE FNeg(One)

\* The integer square root, rounded down.
RECURSIVE ISqrt(_)
ISqrt(n) ==
  IF n < 2 THEN n
  ELSE LET s == 2 * ISqrt(n \div 4)
       IN  IF (s + 1) * (s + 1) <= n THEN s + 1 ELSE s

\* The root of n, doubled, with a sticky bit for the remainder.
RootSticky(n) == 2 * ISqrt(n) + (IF ISqrt(n) * ISqrt(n) = n THEN 0 ELSE 1)

\* The root of m * 2^e for e even, computed to digits + 2 bits or more.
FSqrtEven(m, e) ==
  RoundMant(RootSticky(m * Pow2(2 * (digits + 2))), (e \div 2) - digits - 3)

\* sqrt: NaN below zero; otherwise the exponent is made even first.
FSqrt(x) ==
  IF IsNaN(x) \/ x[1] < 0 THEN NaN
  ELSE IF x = Zero THEN Zero
  ELSE IF x[2] % 2 = 0 THEN FSqrtEven(x[1], x[2])
  ELSE FSqrtEven(2 * x[1], x[2] - 1)

\* abs of mat64.rs: self when self > 0, otherwise -self.
FAbs(x) == IF FGt(x, Zero) THEN x ELSE FNeg(x)

(***************************************************************************)
(* Matrices: column-major, element (r, c) at data[r + c * row], indices    *)
(* from 0 as in the source.                                                *)
(***************************************************************************)
idx(m, r, c) == r + c * m.row

elem(m, r, c) == m.data[idx(m, r, c)]

\* The slice data[c*row .. (c+1)*row], re-indexed from 0.
data_column(m, c) == [r \in 0..(m.row - 1) |-> m.data[c * m.row + r]]

zero(row, column) ==
  [row |-> row, column |-> column, data |-> [k \in 0..(row * column - 1) |-> Zero]]

\* (faulty variant: ones everywhere)
identityOnes(n) == [row |-> n, column |-> n, data |-> [k \in 0..(n * n - 1) |-> One]]
identity(n) ==
  [row |-> n, column |-> n,
   data |-> [k \in 0..(n * n - 1) |->
               IF \E c \in 0..(n - 1) : k = c + c * n THEN One ELSE Zero]]

\* Row and column of a position of the data vector.
RowOf(m, k) == k % m.row
ColOf(m, k) == k \div m.row

(***************************************************************************)
(* matrix/mod.rs: add, sub, neg, mul, tr.  A fallible function returns     *)
(* [res, val]: res is "Ok" or the error kind, val the matrix of an Ok.     *)
(***************************************************************************)
\* The test that add and sub make on the shapes of their operands.
SameShape(x, y) == x.row = y.row /\ x.column = y.column

add(x, y) ==
  IF ~SameShape(x, y) THEN [res |-> "ShapeMismatching", val |-> zero(0, 0)]
  ELSE [res |-> "Ok",
        val |-> [row |-> x.row, column |-> y.column,
                 data |-> [k \in 0..(x.row * y.column - 1) |->
                             FAdd(x.data[k], y.data[k])]]]

sub(left, right) ==
  IF ~SameShape(left, right) THEN [res |-> "ShapeMismatching", val |-> zero(0, 0)]
  ELSE [res |-> "Ok",
        val |-> [row |-> left.row, column |-> left.column,
                 data |-> [k \in 0..(left.row * left.column - 1) |->
                             FSub(left.data[k], right.data[k])]]]

neg(x) == [x EXCEPT !.data = [k \in DOMAIN x.data |-> FNeg(x.data[k])]]

\* t = t + left[r, k] * right[k, c] for k in 0..left.column, from zero.
RECURSIVE MulFrom(_, _, _, _, _, _)
MulFrom(left, right, r, c, k, t) ==
  IF k >= left.column THEN t
  ELSE MulFrom(left, right, r, c, k + 1,
               FAdd(t, FMul(elem(left, r, k), elem(right, k, c))))

\* The test that mul makes on the shapes of its operands.
\* (faulty variant: also asks for a square product)
ConformableSquare(left, right) == left.column = right.row /\ left.row = right.column
Conformable(left, right) == left.column = right.row

mul(left, right) ==
  IF ~Conformable(left, right) THEN [res |-> "ShapeMismatching", val |-> zero(0, 0)]
  ELSE [res |-> "Ok",
        val |-> [row |-> left.row, column |-> right.column,
                 data |-> [k \in 0..(left.row * right.column - 1) |->
                             MulFrom(left, right, k % left.row, k \div left.row,
                                     0, Zero)]]]

\* (faulty variant: the shape is exchanged, the data vector is left in place)
trReshape(x) == [row |-> x.column, column |-> x.row, data |-> x.data]
tr(x) ==
  [row |-> x.column, column |-> x.row,
   data |-> [k \in 0..(x.row * x.column - 1) |->
               elem(x, k \div x.column, k % x.column)]]

(***************************************************************************)
(* matrix/mat64.rs, matrix/mat32.rs: new and from_vec; matrix/mod.rs:      *)
(* elem_mut, hcat, vcat, elemwise.  A data vector is a function on         *)
(* 0..len-1.  A panic is the result "panic".                               *)
(***************************************************************************)
DataLen(data) == Cardinality(DOMAIN data)

NoData == [k \in 0..(-1) |-> Zero]

\* data.extend_from_slice(more)
Extend(data, more) ==
  [k \in 0..(DataLen(data) + DataLen(more) - 1) |->
     IF k < DataLen(data) THEN data[k] ELSE more[k - DataLen(data)]]

Panic == [res |-> "panic", val |-> zero(0, 0)]

\* The test new makes on the length of the data it is given.
\* (faulty variant: only too short a vector is refused)
LengthShort(len, n) == len < n
LengthDiffers(len, n) == len # n

new(row, column, data) ==
  IF LengthDiffers(DataLen(data), row * column) THEN Panic
  ELSE [res |-> "Ok", val |-> [row |-> row, column |-> column, data |-> data]]

from_vec(row, column, data) ==
  IF DataLen(data) # row * column THEN Panic
  ELSE [res |-> "Ok", val |-> [row |-> row, column |-> column, data |-> data]]

\* #[derive(Clone)]
clone(x) == x

\* *m.elem_mut(r, c) = v: idx makes no check, the index into the data
\* vector does.
elem_mut(m, r, c, v) ==
  IF idx(m, r, c) \notin DOMAIN m.data THEN Panic
  ELSE [res |-> "Ok", val |-> [m EXCEPT !.data[idx(m, r, c)] = v]]

RECURSIVE SumColumns(_, _)
SumColumns(mat, k) ==
  IF k > Len(mat) THEN 0 ELSE mat[k].column + SumColumns(mat, k + 1)

RECURSIVE SumRows(_, _)
SumRows(mat, k) ==
  IF k > Len(mat) THEN 0 ELSE mat[k].row + SumRows(mat, k + 1)

\* for m in mat.iter() { data.extend_from_slice(m.data()) }
RECURSIVE HcatData(_, _, _)
HcatData(mat, k, data) ==
  IF k > Len(mat) THEN data ELSE HcatData(mat, k + 1, Extend(data, mat[k].data))

\* The test hcat makes on the shapes, against the first matrix.
\* (faulty variant: the column counts are compared)
RowsDifferByColumn(mat) == \E k \in 1..Len(mat) : mat[k].column # mat[1].column
RowsDiffer(mat) == \E k \in 1..Len(mat) : mat[k].row # mat[1].row

hcat(mat) ==
  IF Len(mat) < 1 THEN [res |-> "NotEnoughInput", val |-> zero(0, 0)]
  ELSE IF RowsDiffer(mat) THEN [res |-> "ShapeMismatching", val |-> zero(0, 0)]
  ELSE from_vec(mat[1].row, SumColumns(mat, 1), HcatData(mat, 1, NoData))

\* for m in mat.iter() { data.extend_from_slice(m.data_column(c)) }
RECURSIVE VcatColumn(_, _, _, _)
VcatColumn(mat, c, k, data) ==
  IF k > Len(mat) THEN data
  ELSE VcatColumn(mat, c, k + 1, Extend(data, data_column(mat[k], c)))

RECURSIVE VcatData(_, _, _, _)
VcatData(mat, c, new_column, data) ==
  IF c >= new_column THEN data
  ELSE VcatData(mat, c + 1, new_column, VcatColumn(mat, c, 1, data))

\* The test vcat makes on the shapes, against the first matrix.
ColumnsDiffer(mat) == \E k \in 1..Len(mat) : mat[k].column # mat[1].column

vcat(mat) ==
  IF Len(mat) < 1 THEN [res |-> "NotEnoughInput", val |-> zero(0, 0)]
  ELSE IF ColumnsDiffer(mat) THEN [res |-> "ShapeMismatching", val |-> zero(0, 0)]
  ELSE from_vec(SumRows(mat, 1), mat[1].column,
                VcatData(mat, 0, mat[1].column, NoData))

\* The closures given to elemwise: |x| x*x of its documentation, and the
\* two functions of LikeNumber.
ElemFns == {"square", "abs", "sqrt"}

Apply(f, x) ==
  IF f = "square" THEN FMul(x, x) ELSE IF f = "abs" THEN FAbs(x) ELSE FSqrt(x)

elemwise(m, f) ==
  from_vec(m.row, m.column, [k \in DOMAIN m.data |-> Apply(f, m.data[k])])

(***************************************************************************)
(* decomp/lu.rs                                                            *)
(***************************************************************************)
RECURSIVE argmaxabsFrom(_, _, _, _)
argmaxabsFrom(elems, len, i, ans) ==
  IF i >= len THEN ans
  ELSE argmaxabsFrom(elems, len, i + 1,
                     IF FGt(FAbs(elems[i]), FAbs(elems[ans])) THEN i ELSE ans)

\* (faulty variant: of several elements of maximal absolute value the last)
RECURSIVE argmaxabsLastFrom(_, _, _, _)
argmaxabsLastFrom(elems, len, i, ans) ==
  IF i >= len THEN ans
  ELSE argmaxabsLastFrom(elems, len, i + 1,
                         IF FGe(FAbs(elems[i]), FAbs(elems[ans])) THEN i ELSE ans)

argmaxabsLast(elems) ==
  IF Cardinality(DOMAIN elems) = 0 THEN 0
  ELSE argmaxabsLastFrom(elems, Cardinality(DOMAIN elems), 1, 0)

argmaxabs(elems) ==
  LET len == Cardinality(DOMAIN elems)
  IN  IF len = 0 THEN 0 ELSE argmaxabsFrom(elems, len, 1, 0)

\* The shape test of lu, Mat64::lu_decomp and det.
NotSquare(m) == m.row # m.column

\* The literal 1e-16 of lu_decomp: as an f64 it is 0.9007 * 2^-53, a little
\* under half the spacing of the numbers next to 1.  With digits bits the
\* number in that place is 0.875 * 2^-digits.
LuTol == <<7, -(digits + 3)>>

\* The test that stops the decomposition and that skips a row: lu compares
\* with zero, Mat64::lu_decomp tests abs(x) < 1e-16.
\* (faulty variant: Mat64::lu_decomp takes every number below 1 for zero)
IsNegligibleBelowOne(kind, x) ==
  IF kind = "lu" THEN x = Zero ELSE FLt(FAbs(x), One)
IsNegligible(kind, x) ==
  IF kind = "lu" THEN x = Zero ELSE FLt(FAbs(x), LuTol)

\* The locals of lu after the shape test: a, n, p, inv_p, l, u; i is the
\* loop counter.  swaps and rounded are history: the number of steps that
\* exchanged two distinct positions of p, and whether any arithmetic
\* operation so far returned a number other than the exact result.
LuEnter(m) ==
  [a |-> m, l |-> identity(m.row), u |-> zero(m.row, m.row),
   p |-> [k \in 0..(m.row - 1) |-> k], inv_p |-> [k \in 0..(m.row - 1) |-> k],
   i |-> 0, status |-> "running", swaps |-> 0, rounded |-> FALSE]

\* Whether x / y, and then for one column x2 - ratio * y2, is inexact.
DivInexact(x, y) == XMul(FDiv(x, y), y) # x
MulSubInexact(x2, ratio, y2) ==
  \/ FMul(ratio, y2) # XMul(ratio, y2)
  \/ FSub(x2, FMul(ratio, y2)) # XSub(x2, FMul(ratio, y2))

\* The pivot exchange in p.
SwapP(p, i, pivot_row_in_pa) ==
  LET idx1 == p[i]
      idx2 == p[pivot_row_in_pa]
  IN  [p EXCEPT ![i] = idx2, ![pivot_row_in_pa] = idx1]

\* The pivot exchange in inv_p.
\* (faulty variant: the second assignment to inv_p left out)
SwapInvPHalf(p, inv_p, i, pivot_row_in_pa) ==
  [inv_p EXCEPT ![p[pivot_row_in_pa]] = i]
SwapInvP(p, inv_p, i, pivot_row_in_pa) ==
  LET idx1 == p[i]
      idx2 == p[pivot_row_in_pa]
  IN  [inv_p EXCEPT ![idx2] = i, ![idx1] = pivot_row_in_pa]

\* Rows i and pivot_row_in_pa of l exchanged in columns 0..i.
\* (faulty variant: no exchange)
SwapLNone(l, i, pivot_row_in_pa) == l
SwapL(l, i, pivot_row_in_pa) ==
  [l EXCEPT !.data =
     [k \in DOMAIN l.data |->
        IF ColOf(l, k) < i /\ RowOf(l, k) = i
          THEN l.data[idx(l, pivot_row_in_pa, ColOf(l, k))]
        ELSE IF ColOf(l, k) < i /\ RowOf(l, k) = pivot_row_in_pa
          THEN l.data[idx(l, i, ColOf(l, k))]
        ELSE l.data[k]]]

\* The pivot row of a copied to row i of u, in the columns 0..n.
MoveRowToU(u, a, i, pivot_row_in_a) ==
  [u EXCEPT !.data =
     [k \in DOMAIN u.data |->
        IF RowOf(u, k) = i THEN a.data[idx(a, pivot_row_in_a, ColOf(u, k))]
        ELSE u.data[k]]]

\* The pivot row of a set to zero.
ClearRow(a, pivot_row_in_a) ==
  [a EXCEPT !.data =
     [k \in DOMAIN a.data |->
        IF RowOf(a, k) = pivot_row_in_a THEN Zero ELSE a.data[k]]]

\* The row of l that receives the ratio of row r of a: l.elem_mut(inv_p[r], i).
\* (faulty variant: the row of a taken for the row of l)
RatioRowDirect(inv_p, r) == r
RatioRow(inv_p, r) == inv_p[r]

\* The columns of a that the elimination of a row rewrites at step i.
\* (faulty variant: column i itself is left as it is)
ElimColsAfter(n, i) == (i + 1)..(n - 1)
ElimCols(n, i) == i..(n - 1)

\* One pass of the loop "for i in 0..n" of lu (kind "lu") and of
\* Mat64::lu_decomp (kind "lu_decomp").
LuStep(kind, s) ==
  LET n == s.a.row
      i == s.i
      pivot_row_in_a == argmaxabs(data_column(s.a, i))
  IN  IF IsNegligible(kind, elem(s.a, pivot_row_in_a, i))
        THEN [s EXCEPT !.status = "SingularMatrix"]
      ELSE
        LET pivot_row_in_pa == s.inv_p[pivot_row_in_a]
            p1    == SwapP(s.p, i, pivot_row_in_pa)
            inv1  == SwapInvP(s.p, s.inv_p, i, pivot_row_in_pa)
            l1    == SwapL(s.l, i, pivot_row_in_pa)
            u1    == MoveRowToU(s.u, s.a, i, pivot_row_in_a)
            a1    == ClearRow(s.a, pivot_row_in_a)
            \* The rows the loop "for r in 0..n" eliminates, and their ratios.
            Elim  == [r \in 0..(n - 1) |-> ~IsNegligible(kind, elem(a1, r, i))]
            ratio == [r \in 0..(n - 1) |->
                        IF Elim[r] THEN FDiv(elem(a1, r, i), elem(u1, i, i)) ELSE Zero]
            a2 == [a1 EXCEPT !.data =
                     [k \in DOMAIN a1.data |->
                        IF Elim[RowOf(a1, k)] /\ ColOf(a1, k) \in ElimCols(n, i)
                          THEN FSub(a1.data[k],
                                    FMul(ratio[RowOf(a1, k)], elem(u1, i, ColOf(a1, k))))
                        ELSE a1.data[k]]]
            \* l[inv_p[r], i] = ratio, for r ascending: the last r wins.
            Writers(k) == {r \in 0..(n - 1) : Elim[r] /\ idx(l1, RatioRow(inv1, r), i) = k}
            Last(S)    == CHOOSE r \in S : \A q \in S : q <= r
            l2 == [l1 EXCEPT !.data =
                     [k \in DOMAIN l1.data |->
                        IF Writers(k) # {} THEN ratio[Last(Writers(k))]
                        ELSE l1.data[k]]]
            inexact ==
              \E r \in 0..(n - 1) :
                 /\ Elim[r]
                 /\ \/ DivInexact(elem(a1, r, i), elem(u1, i, i))
                    \/ \E c \in ElimCols(n, i) :
                          MulSubInexact(elem(a1, r, c), ratio[r], elem(u1, i, c))
        IN  [a |-> a2, l |-> l2, u |-> u1, p |-> p1, inv_p |-> inv1,
             i |-> i + 1, status |-> "running",
             swaps |-> s.swaps + (IF pivot_row_in_pa # i THEN 1 ELSE 0),
             rounded |-> s.rounded \/ inexact]

\* The whole loop and the return.
RECURSIVE LuRun(_, _)
LuRun(kind, s) ==
  IF s.status # "running" THEN s
  ELSE IF s.i >= s.a.row THEN [s EXCEPT !.status = "Ok"]
  ELSE LuRun(kind, LuStep(kind, s))

\* lu(mat) and Mat64::lu_decomp(mat) as functions.
LuOf(kind, m) ==
  IF NotSquare(m)
    THEN [LuEnter(zero(0, 0)) EXCEPT !.status = "ShapeMismatching"]
  ELSE LuRun(kind, LuEnter(m))

(***************************************************************************)
(* det.rs                                                                  *)
(***************************************************************************)
\* diagonal_product: mat.elem(0, 0) is read before the loop, so a matrix
\* without elements makes the indexing of the data vector panic.
RECURSIVE DiagonalFrom(_, _, _)
DiagonalFrom(m, i, ans) ==
  IF i >= m.row THEN ans
  ELSE DiagonalFrom(m, i + 1, FMul(ans, elem(m, i, i)))

DiagonalPanics(m) == 0 \notin DOMAIN m.data

diagonal_product(m) == DiagonalFrom(m, 1, elem(m, 0, 0))

\* permutation_order: the exchanges that bring a copy of p to the identity.
RECURSIVE PermutationFrom(_, _, _)
PermutationFrom(a, i, ans) ==
  IF i >= Cardinality(DOMAIN a) THEN ans
  ELSE IF a[i] # i
    THEN LET tmp == a[i]
         IN  PermutationFrom([a EXCEPT ![i] = a[a[i]], ![tmp] = tmp], i, ans + 1)
  ELSE PermutationFrom(a, i + 1, ans)

\* (faulty variant: the displaced positions counted, not the exchanges)
permutation_displaced(p) == Cardinality({k \in DOMAIN p : p[k] # k})
permutation_order(p) == PermutationFrom(p, 0, 0)

\* permutation_order step by step.  An activation holds the caller's vector
\* p, which the function only borrows, and the locals a, i and ans.
Enter(p) == [p |-> p, a |-> p, i |-> 0, ans |-> 0]

\* a[i] = a[a[i]]; a[tmp] = tmp
Exchange(a, i) == [a EXCEPT ![i] = a[a[i]], ![a[i]] = a[i]]

\* (faulty variant: an if in the place of the while, so that i moves on
\* after one exchange)
PermutationStepOnce(s) ==
  IF s.a[s.i] # s.i
    THEN [s EXCEPT !.a = Exchange(s.a, s.i), !.ans = s.ans + 1, !.i = s.i + 1]
  ELSE [s EXCEPT !.i = s.i + 1]

\* One test of the while condition: an exchange when a[i] != i, otherwise
\* the for loop moves on to the next i.
PermutationStep(s) ==
  IF s.a[s.i] # s.i
    THEN [s EXCEPT !.a = Exchange(s.a, s.i), !.ans = s.ans + 1]
  ELSE [s EXCEPT !.i = s.i + 1]

\* The sign that the parity of the order gives to detlu.
Signed(order, detlu) == IF order % 2 = 0 THEN detlu ELSE FNeg(detlu)

\* What det makes of the outcome of lu: zero for an error, otherwise the
\* signed product of the two diagonals.
DetFromLu(lud) ==
  IF lud.status # "Ok" THEN [res |-> "Ok", val |-> Zero, lud |-> lud]
  ELSE IF DiagonalPanics(lud.l) THEN [res |-> "panic", val |-> Zero, lud |-> lud]
  ELSE [res |-> "Ok",
        val |-> Signed(permutation_order(lud.p),
                       FMul(diagonal_product(lud.l), diagonal_product(lud.u))),
        lud |-> lud]

\* det (kind "lu") and the Mat64 implementation of DeterminantComputable
\* (kind "lu_decomp"): the outcome, the value, and the decomposition used.
DetOf(kind, m) ==
  IF NotSquare(m)
    THEN [res |-> "ShapeMismatching", val |-> Zero, lud |-> LuEnter(zero(0, 0))]
  ELSE IF m.row = 2
    THEN [res |-> "Ok",
          val |-> FSub(FMul(elem(m, 0, 0), elem(m, 1, 1)),
                       FMul(elem(m, 0, 1), elem(m, 1, 0))),
          lud |-> LuEnter(zero(0, 0))]
  ELSE DetFromLu(LuOf(kind, m))

(***************************************************************************)
(* decomp/qr.rs: QR decomposition by the Gram-Schmidt process and by       *)
(* Householder reflections.  A vector is a function on 0..(len - 1).       *)
(***************************************************************************)
\* Iterator::sum of the elements k.. of v: additions from zero, in order.
RECURSIVE SumFrom(_, _, _)
SumFrom(v, k, acc) ==
  IF k \notin DOMAIN v THEN acc ELSE SumFrom(v, k + 1, FAdd(acc, v[k]))

l2_norm_of_vector(v) ==
  FSqrt(SumFrom([k \in DOMAIN v |-> FMul(v[k], v[k])], 0, Zero))

\* Both callers pass vectors of one length, so the length test never fails.
vector_dot_product(x, y) ==
  SumFrom([k \in DOMAIN x |-> FMul(x[k], y[k])], 0, Zero)

\* The shape test of qr_gram_schmidt and qr_househoulder.
\* (faulty variant: square inputs refused as well)
IsWideOrSquare(m) == m.row <= m.column
IsWide(m) == m.row < m.column

\* Column i of a less its projection on column ii of q.
GsProject(a, q, i, ii) ==
  LET ratio == vector_dot_product(data_column(a, i), data_column(q, ii))
  IN  [a EXCEPT !.data =
         [k \in DOMAIN a.data |->
            IF ColOf(a, k) = i
            THEN FSub(a.data[k], FMul(ratio, elem(q, RowOf(a, k), ii)))
            ELSE a.data[k]]]

\* for ii in 0..i
RECURSIVE GsEliminate(_, _, _, _)
GsEliminate(a, q, i, ii) ==
  IF ii >= i THEN a ELSE GsEliminate(GsProject(a, q, i, ii), q, i, ii + 1)

\* Column i of q: column i of a divided by its norm.
GsNormalise(a, q, i) ==
  LET u    == data_column(a, i)
      u_l2 == l2_norm_of_vector(u)
  IN  [q EXCEPT !.data =
         [k \in DOMAIN q.data |->
            IF ColOf(q, k) = i THEN FDiv(u[RowOf(q, k)], u_l2) ELSE q.data[k]]]

\* for i in 0..n: the elimination of column i, then column i of q.
RECURSIVE GsColumns(_, _, _)
RECURSIVE GsColumn(_, _, _)
GsColumn(a1, q, i) == GsColumns(a1, GsNormalise(a1, q, i), i + 1)

GsColumns(a, q, i) ==
  IF i >= a.column THEN q ELSE GsColumn(GsEliminate(a, q, i, 0), q, i)

\* rmat: the products of the columns of q and of mat, on and above the diagonal.
GsR(q, mat) ==
  [row |-> mat.row, column |-> mat.column,
   data |-> [k \in 0..(mat.row * mat.column - 1) |->
               IF k % mat.row <= k \div mat.row
               THEN vector_dot_product(data_column(q, k % mat.row),
                                       data_column(mat, k \div mat.row))
               ELSE Zero]]

NoQR == [q |-> zero(0, 0), r |-> zero(0, 0)]

GsResult(q, mat) == [res |-> "Ok", val |-> [q |-> q, r |-> GsR(q, mat)]]

qr_gram_schmidt(mat) ==
  IF IsWide(mat) THEN [res |-> "ShapeMismatching", val |-> NoQR]
  ELSE GsResult(GsColumns(mat, zero(mat.row, mat.row), 0), mat)

\* v / norm for every element v of u.
Scaled(u, norm) == [j \in DOMAIN u |-> FDiv(u[j], norm)]

\* The Householder vector of x: u = x with u[0] - alpha, alpha being
\* -|x| * sign(x[0]), and then u / |u|.
WithAlpha(x, alpha) == [x EXCEPT ![0] = FSub(x[0], alpha)]

Normalised(u) == Scaled(u, l2_norm_of_vector(u))

HouseholderVector(x) ==
  Normalised(WithAlpha(x, FMul(FNeg(l2_norm_of_vector(x)), FSign(x[0]))))

\* Q_i = I - 2vv^T in rows and columns i.. of the identity.
Reflector(id, m, i, u) ==
  [id EXCEPT !.data =
     [k \in DOMAIN id.data |->
        IF k % m >= i /\ k \div m >= i
        THEN FSub(FSub(id.data[k], FMul(u[(k % m) - i], u[(k \div m) - i])),
                  FMul(u[(k % m) - i], u[(k \div m) - i]))
        ELSE id.data[k]]]

\* q = mul(&q_i, &q), a = mul(&q_i, &a)
Reflect(q_i, s) == [a |-> mul(q_i, s.a).val, q |-> mul(q_i, s.q).val]

\* One pass of the loop: x is column i of a from row i on.
HhStep(s, i) ==
  Reflect(Reflector(identity(s.a.row), s.a.row, i,
                    HouseholderVector([j \in 0..(s.a.row - i - 1) |->
                                         elem(s.a, i + j, i)])),
          s)

\* for i in 0..full_iteration
RECURSIVE HhSteps(_, _, _)
HhSteps(s, i, full_iteration) ==
  IF i >= full_iteration THEN s ELSE HhSteps(HhStep(s, i), i + 1, full_iteration)

\* q: tr(&q), r: a
HhResult(s) == [res |-> "Ok", val |-> [q |-> tr(s.q), r |-> s.a]]

\* m - 1 is computed in usize.  For m = 0 it overflows: a build with
\* overflow checks panics there, a build without them wraps to the largest
\* usize, which is not below n.
qr_househoulder(mat, overflow_checks) ==
  IF IsWide(mat) THEN [res |-> "ShapeMismatching", val |-> NoQR]
  ELSE IF mat.row = 0 /\ overflow_checks THEN [res |-> "panic", val |-> NoQR]
  ELSE HhResult(HhSteps([a |-> mat, q |-> identity(mat.row)], 0,
                        IF mat.row # 0 /\ mat.row - 1 < mat.column
                          THEN mat.row - 1 ELSE mat.column))

(***************************************************************************)
(* Inputs.                                                                 *)
(***************************************************************************)
\* The vectors that hold each of 0..(n - 1) once, as lu returns them in p.
PermutationsOf(n) ==
  {f \in [0..(n - 1) -> 0..(n - 1)] : {f[k] : k \in 0..(n - 1)} = 0..(n - 1)}

PermutationInputs == UNION {PermutationsOf(n) : n \in 0..MaxPerm}

\* 1.0 / 3.0 as the element type holds it.
Third == FDiv(One, Num(3))

\* Numbers on which rounding shows: 7 / 10 multiplied back by 10 misses 7
\* at Prec = 3, as 1 / 49 multiplied back by 49 misses 1 in f64.
Awkward == {Num(3), Third, Rnd(Num(7)), Rnd(Num(10))}

Vals == {Rnd(Num(v)) : v \in (-MaxVal)..MaxVal} \cup Awkward

\* Entries of the 2x2 blocks that are embedded in 3x3 inputs.
BlockVals == {Zero, One, Rnd(Num(7)), Rnd(Num(10))}

Bits == {Zero, One}

MatricesOver(row, column, V) ==
  {[row |-> row, column |-> column, data |-> d] : d \in [0..(row * column - 1) -> V]}

\* A 2x2 matrix b as the leading block of a 3x3 matrix with a final 1.
Embed(b) ==
  [row |-> 3, column |-> 3,
   data |-> [k \in 0..8 |->
               IF k % 3 < 2 /\ k \div 3 < 2 THEN elem(b, k % 3, k \div 3)
               ELSE IF k = 8 THEN One ELSE Zero]]

\* mat64![...]: the rows as written, each literal converted to the element
\* type, stored column-major.
mat64(rows) ==
  LET n == Len(rows)
      m == IF n = 0 THEN 0 ELSE Len(rows[1])
  IN  [row |-> n, column |-> m,
       data |-> [k \in 0..(n * m - 1) |-> Rnd(Num(rows[(k % n) + 1][(k \div n) + 1]))]]

\* Matrices of the tests of lu.rs and det.rs.
TestInputs ==
  { mat64(<<<<1, 2>>, <<3, 4>>>>),
    mat64(<<<<1, 1>>, <<2, 2>>>>),
    mat64(<<<<1, 2>>, <<2, 4>>>>),
    mat64(<<<<1, 2, 3>>, <<2, 3, 1>>, <<2, 4, 2>>>>),
    mat64(<<<<1, 2, 3>>, <<2, 4, 2>>, <<2, 3, 1>>>>),
    mat64(<<<<1, 2, 3>>, <<2, 4, 6>>, <<-1, -2, -3>>>>),
    mat64(<<<<2, 3, 4>>, <<4, 7, 5>>, <<3, 9, 5>>>>),
    mat64(<<<<1, 0, 0, 1>>, <<1, 1, 1, 1>>, <<1, 2, 1, 0>>, <<0, 0, 0, 1>>>>),
    mat64(<<<<1, 0, 0, 1>>, <<1, 1, 1, 1>>, <<1, 2, 2, 0>>, <<0, 0, 0, 1>>>>) }

SquareInputs ==
  MatricesOver(0, 0, Vals) \cup MatricesOver(1, 1, Vals) \cup MatricesOver(2, 2, Vals)
    \cup MatricesOver(3, 3, Bits)
    \cup {Embed(b) : b \in MatricesOver(2, 2, BlockVals)}
    \cup TestInputs

NonSquareShapes == {<<0, 1>>, <<1, 0>>, <<1, 2>>, <<2, 1>>, <<2, 3>>, <<3, 2>>}

NonSquareInputs == UNION {MatricesOver(sh[1], sh[2], Bits) : sh \in NonSquareShapes}

Inputs == SquareInputs \cup NonSquareInputs

\* Matrices of the tests of qr.rs.
QrTestInputs ==
  { mat64(<<<<1, 2>>, <<1, 1>>>>),
    mat64(<<<<1, 2, 3>>, <<1, 1, 4>>, <<5, 6, 2>>>>) }

\* 2^27: a magnitude at which neighbouring numbers are further apart than
\* the tolerance of the tests, as they are at 1e10 in f64.
Large == <<1, 27>>

\* A matrix with entries of that magnitude.
LargeInputs ==
  {[m EXCEPT !.data = [k \in DOMAIN m.data |-> XMul(Large, m.data[k])]] :
     m \in {mat64(<<<<1, 2>>, <<3, 4>>>>)}}

\* Inputs of the QR functions: wide and tall matrices, and square ones.
QrInputs ==
  NonSquareInputs \cup MatricesOver(0, 0, Bits) \cup MatricesOver(1, 1, Vals)
    \cup MatricesOver(2, 2, BlockVals) \cup QrTestInputs \cup LargeInputs

\* Operands of add, sub and mul: every shape up to 2x2.
AlgebraVals == {One, Third}

AlgebraInputs ==
  UNION {MatricesOver(r, c, AlgebraVals) : r \in 0..2, c \in 0..2}

AlgebraOps == {"add", "sub", "mul"}

\* Right operands of a product with an identity matrix: up to 3x2, with
\* entries that are exact, rounded or NaN.
IdentityInputs ==
  UNION {MatricesOver(r, c, {One, Third, NaN}) : r \in 0..3, c \in 0..2}

\* Arguments of new and from_vec: a shape and a vector of up to MaxData
\* elements, of the right length or not.
Shapes == (0..2) \X (0..2)

DataInputs == UNION {[0..(n - 1) -> Bits] : n \in 0..MaxData}

UnaryOps == {"clone", "neg", "tr"}

\* Operands of clone, neg, tr and elemwise: every shape up to 3x2 and 2x3,
\* and matrices that hold NaN.
UnaryInputs ==
  AlgebraInputs \cup NonSquareInputs \cup MatricesOver(2, 2, {One, NaN})

\* Arguments of hcat and vcat: slices of up to two matrices of any shape, and
\* of three matrices that differ in shape only.
Blocks == UNION {MatricesOver(sh[1], sh[2], {One}) : sh \in Shapes}

CatInputs ==
  {<<>>} \cup {<<x>> : x \in AlgebraInputs}
    \cup {<<x, y>> : x \in AlgebraInputs, y \in AlgebraInputs}
    \cup {<<x, y, z>> : x \in Blocks, y \in Blocks, z \in Blocks}

CatOps == {"hcat", "vcat"}

(***************************************************************************)
(* The state: the call in progress (op, mat, rhs, mats), the locals of lu  *)
(* and of lu_decomp, and what the call returned (res, val).                *)
(***************************************************************************)
VARIABLES op, mat, rhs, mats, order, a, l, u, p, inv_p, i, swaps, rounded, res, val

vars == <<digits, op, mat, mats, rhs, order, a, l, u, p, inv_p, i, swaps, rounded, res, val>>

luvars == <<a, l, u, p, inv_p, i, swaps, rounded>>

Locals ==
  [a |-> a, l |-> l, u |-> u, p |-> p, inv_p |-> inv_p, i |-> i,
   status |-> "running", swaps |-> swaps, rounded |-> rounded]

SetLocals(s) ==
  /\ a' = s.a
  /\ l' = s.l
  /\ u' = s.u
  /\ p' = s.p
  /\ inv_p' = s.inv_p
  /\ i' = s.i
  /\ swaps' = s.swaps
  /\ rounded' = s.rounded

Init ==
  /\ digits \in {Prec, WidePrec}
  /\ op = "idle"
  /\ mat = zero(0, 0)
  /\ rhs = zero(0, 0)
  /\ mats = <<>>
  /\ order = Enter([k \in 0..(-1) |-> k])
  /\ a = zero(0, 0)
  /\ l = identity(0)
  /\ u = zero(0, 0)
  /\ p = [k \in 0..(-1) |-> k]
  /\ inv_p = [k \in 0..(-1) |-> k]
  /\ i = 0
  /\ swaps = 0
  /\ rounded = FALSE
  /\ res = "none"
  /\ val = Zero

LuKinds == {"lu", "lu_decomp"}

\* lu(&mat), Mat64::lu_decomp(&mat): the shape test and the locals.
LuCall(kind, m) ==
  /\ op = "idle"
  /\ op' = kind
  /\ mat' = m
  /\ UNCHANGED <<digits, order, mats, rhs, val>>
  /\ IF NotSquare(m)
       THEN /\ res' = "ShapeMismatching"
            /\ UNCHANGED luvars
       ELSE /\ res' = "none"
            /\ SetLocals(LuEnter(m))

\* One pass of the loop: a failed pivot search returns SingularMatrix.
LuLoop(kind) ==
  /\ op = kind
  /\ res = "none"
  /\ i < a.row
  /\ LET s == LuStep(kind, Locals)
     IN  IF s.status = "SingularMatrix"
           THEN /\ res' = "SingularMatrix"
                /\ UNCHANGED luvars
           ELSE /\ res' = res
                /\ SetLocals(s)
  /\ UNCHANGED <<digits, order, mats, op, mat, rhs, val>>

\* Ok(LUDecomposition {l, u, p}) after the loop.
LuReturn(kind) ==
  /\ op = kind
  /\ res = "none"
  /\ i >= a.row
  /\ res' = "Ok"
  /\ UNCHANGED <<digits, order, mats, op, mat, rhs, val, luvars>>

\* det(&mat) and Mat64::det(&mat), from call to return.
DetReturn(kind, m, d) ==
  /\ op' = IF kind = "lu" THEN "det" ELSE "det64"
  /\ mat' = m
  /\ res' = d.res
  /\ val' = d.val
  /\ SetLocals(d.lud)
  /\ UNCHANGED <<digits, order, mats, rhs>>

DetCall(kind, m) == op = "idle" /\ DetReturn(kind, m, DetOf(kind, m))

\* add(&x, &y), sub(&x, &y), mul(&x, &y), from call to return.
AlgebraOf(f, x, y) ==
  IF f = "add" THEN add(x, y) ELSE IF f = "sub" THEN sub(x, y) ELSE mul(x, y)

AlgebraReturn(f, x, y, d) ==
  /\ op' = f
  /\ mat' = x
  /\ rhs' = y
  /\ res' = d.res
  /\ val' = d.val
  /\ UNCHANGED <<digits, order, mats, luvars>>

AlgebraCall(f, x, y) == op = "idle" /\ AlgebraReturn(f, x, y, AlgebraOf(f, x, y))

\* The caller: one call, with any input, from the idle state.
\* qr_gram_schmidt(&m) and qr_househoulder(&m), from call to return.  The
\* build of the library is with or without overflow checks.
QrAlgs == {"qr_gram_schmidt", "qr_househoulder"}

QrOf(alg, m, overflow_checks) ==
  IF alg = "qr_gram_schmidt" THEN qr_gram_schmidt(m)
  ELSE qr_househoulder(m, overflow_checks)

QrReturn(alg, m, d) ==
  /\ op' = alg
  /\ mat' = m
  /\ res' = d.res
  /\ val' = d.val
  /\ UNCHANGED <<digits, order, mats, rhs, luvars>>

QrCall(alg, m, overflow_checks) ==
  op = "idle" /\ QrReturn(alg, m, QrOf(alg, m, overflow_checks))

\* A call of a function of matrix/mod.rs or of a constructor, from call to
\* return: x and ms are its arguments, d what it returns.
MatrixReturn(f, x, ms, d) ==
  /\ op' = f
  /\ mat' = x
  /\ mats' = ms
  /\ res' = d.res
  /\ val' = d.val
  /\ UNCHANGED <<digits, order, rhs, luvars>>

\* T::new(row, column, &data) and T::from_vec(row, column, data).
ConstructOf(f, row, column, data) ==
  IF f = "new" THEN new(row, column, data) ELSE from_vec(row, column, data)

ConstructCall(f, row, column, data) ==
  MatrixReturn(f, [row |-> row, column |-> column, data |-> data], <<>>,
               ConstructOf(f, row, column, data))

\* T::zero(row, column) and T::identity(n), which cannot fail.
ZeroCall(row, column) ==
  MatrixReturn("zero", [row |-> row, column |-> column, data |-> NoData], <<>>,
               [res |-> "Ok", val |-> zero(row, column)])

IdentityCall(n) ==
  MatrixReturn("identity", [row |-> n, column |-> n, data |-> NoData], <<>>,
               [res |-> "Ok", val |-> identity(n)])

\* x.clone(), neg(&x), tr(&x), which cannot fail.
UnaryOf(f, x) == IF f = "clone" THEN clone(x) ELSE IF f = "neg" THEN neg(x) ELSE tr(x)

UnaryCall(f, x) == MatrixReturn(f, x, <<>>, [res |-> "Ok", val |-> UnaryOf(f, x)])

\* elemwise(&x, f)
ElemwiseCall(x, f) == MatrixReturn("elemwise", x, <<>>, elemwise(x, f))

\* *x.elem_mut(r, c) = v on a matrix the caller owns.
WriteCall(x, r, c, v) == MatrixReturn("elem_mut", x, <<>>, elem_mut(x, r, c, v))

\* hcat(&ms), vcat(&ms)
CatOf(f, ms) == IF f = "hcat" THEN hcat(ms) ELSE vcat(ms)

CatCall(f, ms) == MatrixReturn(f, zero(0, 0), ms, CatOf(f, ms))

\* permutation_order(&p): the call, one test of the while condition, and
\* the return of ans after the for loop.
PermutationOrderCall(q) ==
  /\ op = "idle"
  /\ op' = "permutation_order"
  /\ order' = Enter(q)
  /\ res' = "none"
  /\ UNCHANGED <<digits, mat, mats, rhs, val, luvars>>

PermutationOrderLoop ==
  /\ op = "permutation_order"
  /\ res = "none"
  /\ order.i < Cardinality(DOMAIN order.p)
  /\ order' = PermutationStep(order)
  /\ UNCHANGED <<digits, op, mat, mats, rhs, res, val, luvars>>

PermutationOrderReturn ==
  /\ op = "permutation_order"
  /\ res = "none"
  /\ order.i >= Cardinality(DOMAIN order.p)
  /\ res' = "Ok"
  /\ UNCHANGED <<digits, order, op, mat, mats, rhs, val, luvars>>

Idle == op = "idle"

Next ==
  \/ Idle /\ \E kind \in LuKinds, m \in Inputs : LuCall(kind, m)
  \/ \E kind \in LuKinds : LuLoop(kind)
  \/ \E kind \in LuKinds : LuReturn(kind)
  \/ Idle /\ \E kind \in LuKinds, m \in Inputs : DetCall(kind, m)
  \/ Idle /\ \E f \in AlgebraOps, x \in AlgebraInputs, y \in AlgebraInputs :
               AlgebraCall(f, x, y)
  \/ Idle /\ \E n \in 0..3, y \in IdentityInputs : AlgebraCall("mul", identity(n), y)
  \/ Idle /\ \E alg \in QrAlgs, m \in QrInputs, overflow_checks \in BOOLEAN :
               QrCall(alg, m, overflow_checks)
  \/ Idle /\ \E f \in {"new", "from_vec"}, sh \in Shapes, data \in DataInputs :
               ConstructCall(f, sh[1], sh[2], data)
  \/ Idle /\ \E sh \in Shapes : ZeroCall(sh[1], sh[2])
  \/ Idle /\ \E n \in 0..3 : IdentityCall(n)
  \/ Idle /\ \E f \in UnaryOps, x \in UnaryInputs : UnaryCall(f, x)
  \/ Idle /\ \E x \in UnaryInputs, f \in ElemFns : ElemwiseCall(x, f)
  \/ Idle /\ \E x \in AlgebraInputs, r \in 0..2, c \in 0..2, v \in Bits :
               WriteCall(x, r, c, v)
  \/ Idle /\ \E f \in CatOps, ms \in CatInputs : CatCall(f, ms)
  \/ Idle /\ \E q \in PermutationInputs : PermutationOrderCall(q)
  \/ PermutationOrderLoop
  \/ PermutationOrderReturn

Spec == Init /\ [][Next]_vars

\* A call of permutation_order that can take a step takes it: nothing else
\* runs while it does.
FairSpec ==
  Spec /\ WF_vars(PermutationOrderLoop) /\ WF_vars(PermutationOrderReturn)

(***************************************************************************)
(* What the properties are stated with: the exact determinant and the      *)
(* exact product, computed without rounding.                               *)
(***************************************************************************)
Bijections(n) ==
  {f \in [0..(n - 1) -> 0..(n - 1)] : \A x, y \in 0..(n - 1) : f[x] = f[y] => x = y}

Inversions(f, n) ==
  Cardinality({pr \in (0..(n - 1)) \X (0..(n - 1)) : pr[1] < pr[2] /\ f[pr[1]] > f[pr[2]]})

RECURSIVE XProdRows(_, _, _)
XProdRows(m, f, r) ==
  IF r >= m.row THEN One ELSE XMul(elem(m, r, f[r]), XProdRows(m, f, r + 1))

RECURSIVE XSumOver(_, _)
XSumOver(S, m) ==
  IF S = {} THEN Zero
  ELSE LET f == CHOOSE g \in S : TRUE
           t == XProdRows(m, f, 0)
       IN  XAdd(IF Inversions(f, m.row) % 2 = 0 THEN t ELSE XNeg(t),
                XSumOver(S \ {f}, m))

\* The determinant of a square matrix by the Leibniz formula.
XDet(m) == XSumOver(Bijections(m.row), m)

\* Element (r, c) of l * u, exactly.
RECURSIVE XDotFrom(_, _, _, _, _)
XDotFrom(x, y, r, c, k) ==
  IF k >= x.column THEN Zero
  ELSE XAdd(XMul(elem(x, r, k), elem(y, k, c)), XDotFrom(x, y, r, c, k + 1))

Square(m) == m.row = m.column

Rows == 0..(a.row - 1)

IsPermutation(f, n) ==
  DOMAIN f = 0..(n - 1) /\ {f[k] : k \in 0..(n - 1)} = 0..(n - 1)

\* 1e-7, the tolerance of the tests, is 2^29.7 times the 2^-53 of f64; the
\* same number of units of 2^-digits.
Tol == <<1, 29 - digits>>

(***************************************************************************)
(* Properties.                                                             *)
(***************************************************************************)

C2_PermutationAndInverse ==
  (op \in LuKinds /\ res # "ShapeMismatching") =>
     /\ IsPermutation(p, a.row)
     /\ DOMAIN inv_p = Rows
     /\ \A k \in Rows : inv_p[p[k]] = k

\* C2, witness: three steps done, one that exchanged two positions of p and
\* two that found the pivot in place.
C2_Witness ==
  /\ op = "lu_decomp" /\ i = 3 /\ swaps = 1
  /\ \E k \in Rows : p[k] # k

\* C3: in lu and lu_decomp, after every step and on return, l has ones on
\* its diagonal and zeros above it.
C3_UnitLowerTriangular ==
  (op \in LuKinds /\ res # "ShapeMismatching") =>
     /\ l.row = a.row /\ l.column = a.row
     /\ \A r \in Rows : elem(l, r, r) = One
     /\ \A r, c \in Rows : r < c => elem(l, r, c) = Zero

\* C3, witness: a returned 3x3 decomposition with an exchange and ratios
\* recorded under the diagonal in both columns.
C3_Witness ==
  /\ op = "lu" /\ res = "Ok" /\ a.row = 3 /\ swaps >= 1
  /\ elem(l, 1, 0) # Zero /\ elem(l, 2, 0) # Zero /\ elem(l, 2, 1) # Zero

\* C4, as claimed: on every successful return of lu and lu_decomp, every
\* element of u under the diagonal is exactly zero.
C4_UpperTriangular ==
  (op \in LuKinds /\ res = "Ok") =>
     \A r, c \in Rows : r > c => elem(u, r, c) = Zero

\* C5, as claimed: for every square singular input, lu returns
\* SingularMatrix.
C5_SingularDetected ==
  (op = "lu" /\ res # "none" /\ Square(mat) /\ XDet(mat) = Zero) =>
     res = "SingularMatrix"

\* C6: lu, Mat64::lu_decomp and det return ShapeMismatching exactly when
\* the input has rows # cols, and never SingularMatrix for such an input;
\* qr_gram_schmidt and qr_househoulder return ShapeMismatching exactly when
\* rows < cols, and return no other error.  The test comes first: after a
\* refused call of lu, lu_decomp or det no step of the loop has run.
C6_ShapeErrors ==
  /\ op \in {"lu", "lu_decomp", "det", "det64"} =>
       /\ res = "ShapeMismatching" <=> mat.row # mat.column
       /\ mat.row # mat.column => (res # "SingularMatrix" /\ i = 0)
  /\ op \in QrAlgs =>
       /\ res = "ShapeMismatching" <=> mat.row < mat.column
       /\ res \notin {"SingularMatrix", "NotEnoughInput", "none"}

\* C6, witness: a 3x2 input, which lu refuses and qr_househoulder accepts.
C6_Witness ==
  /\ op = "qr_househoulder" /\ mat.row = 3 /\ mat.column = 2 /\ res = "Ok"
  /\ val.q.row = 3 /\ val.r.column = 2

\* C7: add and sub return ShapeMismatching exactly when the operands differ
\* in rows or in columns, mul exactly when left.column # right.row;
\* otherwise they return Ok with a matrix of x.row by x.column elements
\* (add, sub) or left.row by right.column elements (mul).
C7_AlgebraShapes ==
  /\ op \in {"add", "sub"} =>
       /\ res = "ShapeMismatching" <=> (mat.row # rhs.row \/ mat.column # rhs.column)
       /\ res # "ShapeMismatching" =>
            /\ res = "Ok" /\ val.row = mat.row /\ val.column = mat.column
            /\ DOMAIN val.data = 0..(mat.row * mat.column - 1)
  /\ op = "mul" =>
       /\ res = "ShapeMismatching" <=> mat.column # rhs.row
       /\ res # "ShapeMismatching" =>
            /\ res = "Ok" /\ val.row = mat.row /\ val.column = rhs.column
            /\ DOMAIN val.data = 0..(mat.row * rhs.column - 1)

\* C7, witness: a product of a 2x1 and a 1x2 matrix, which add refuses.
C7_Witness ==
  /\ op = "mul" /\ res = "Ok"
  /\ mat.row = 2 /\ mat.column = 1 /\ rhs.row = 1 /\ rhs.column = 2
  /\ val.row = 2 /\ val.column = 2

\* C8, as claimed: for every square input, det returns Ok with the
\* determinant of the input.
C8_DetIsDeterminant ==
  (op = "det" /\ Square(mat)) => (res = "Ok" /\ val = XDet(mat))

\* C9, as claimed: det never returns SingularMatrix, and for every square
\* singular input it returns Ok with zero.
C9_DetOfSingularIsZero ==
  op = "det" =>
     /\ res # "SingularMatrix"
     /\ (Square(mat) /\ XDet(mat) = Zero) => (res = "Ok" /\ val = Zero)

\* The product that det negates or not: diagonal of l times diagonal of u.
DetLU == FMul(diagonal_product(l), diagonal_product(u))

\* C10: when det goes through lu (a square input of a size other than 2 on
\* which lu succeeds), it returns the negated product of the diagonals
\* exactly when the number of steps that exchanged two distinct positions
\* of p is odd, and permutation_order(p) has the parity of that number.
C10_SignFollowsSwaps ==
  (op = "det" /\ Square(mat) /\ mat.row \notin {0, 2} /\ i = mat.row) =>
     /\ res = "Ok"
     /\ val = FNeg(DetLU) <=> swaps % 2 = 1
     /\ val = DetLU <=> swaps % 2 = 0
     /\ permutation_order(p) % 2 = swaps % 2

\* C10, witness: a 3x3 determinant whose decomposition exchanged rows once.
C10_Witness ==
  /\ op = "det" /\ res = "Ok" /\ mat.row = 3 /\ i = 3 /\ swaps = 1
  /\ val = FNeg(DetLU) /\ val # Zero


(***************************************************************************)
(* What the properties of the QR decompositions are stated with.           *)
(***************************************************************************)
\* The k-th smallest element of a set of numbers, k from 0.
Pick(S, k) == CHOOSE x \in S : Cardinality({y \in S : y < x}) = k

\* The rows S of m, in their order, as a matrix.
RowsOf(m, S) ==
  [row |-> Cardinality(S), column |-> m.column,
   data |-> [k \in 0..(Cardinality(S) * m.column - 1) |->
               elem(m, Pick(S, k % Cardinality(S)), k \div Cardinality(S))]]

\* The columns of a matrix with at least as many rows as columns are
\* linearly independent: some choice of as many rows as there are columns
\* has a non-zero determinant.
FullColumnRank(m) ==
  \E S \in SUBSET (0..(m.row - 1)) :
    Cardinality(S) = m.column /\ XDet(RowsOf(m, S)) # Zero

NoNaN(m) == \A k \in DOMAIN m.data : ~IsNaN(m.data[k])

\* d * 2^e <= t * 2^f for d >= 0 and t > 0, decided on the lengths of the
\* significands where the exponents are far apart.
LeqAt(d, e, t, f) ==
  IF e >= f
  THEN IF BitLen(d) + (e - f) > BitLen(t) THEN FALSE ELSE d * Pow2(e - f) <= t
  ELSE IF BitLen(t) + (f - e) > BitLen(d) THEN TRUE ELSE d <= t * Pow2(f - e)

\* |x - y| <= tol, exactly.
Close(x, y, tol) == LeqAt(IAbs(XSub(x, y)[1]), XSub(x, y)[2], tol[1], tol[2])

\* The tolerance on the entries of tr(q) * q, which are of magnitude at most
\* one: Tol, counted in units of rounding, exceeds every such entry of the
\* model, so the comparison with the identity takes a tolerance that, as
\* 1e-7 in f64, separates 0 from 1.
UnitTol == <<1, -1>>

Delta(r, c) == IF r = c THEN One ELSE Zero

\* C11, as claimed: for every input with at least as many rows as columns
\* and full column rank, the q returned by qr_gram_schmidt and by
\* qr_househoulder is square of the input's row count and orthogonal: every
\* element of tr(q) * q is within the tolerance of the identity's, also
\* when the input has more rows than columns.
C11_QIsOrthogonal ==
  (op \in QrAlgs /\ res = "Ok" /\ FullColumnRank(mat)) =>
    /\ val.q.row = mat.row /\ val.q.column = mat.row
    /\ NoNaN(val.q)
    /\ \A r, c \in 0..(mat.row - 1) :
         Close(XDotFrom(tr(val.q), val.q, r, c, 0), Delta(r, c), UnitTol)


\* C12, as claimed: for every input with at least as many rows as columns,
\* the r returned by qr_gram_schmidt and by qr_househoulder has the shape of
\* the input and is upper-trapezoidal: r[i, c] is zero for every i > c.
C12_RUpperTrapezoidal ==
  (op \in QrAlgs /\ res = "Ok") =>
    /\ val.r.row = mat.row /\ val.r.column = mat.column
    /\ \A r \in 0..(mat.row - 1), c \in 0..(mat.column - 1) :
         r > c => elem(val.r, r, c) = Zero


\* C13, as claimed: for every input A with at least as many rows as columns
\* and full column rank, the q and r returned by qr_gram_schmidt and by
\* qr_househoulder reconstruct A: every element of q * r is within the
\* tolerance of A's.
C13_QRReconstructs ==
  (op \in QrAlgs /\ res = "Ok" /\ FullColumnRank(mat)) =>
    /\ NoNaN(val.q) /\ NoNaN(val.r)
    /\ \A r \in 0..(mat.row - 1), c \in 0..(mat.column - 1) :
         Close(XDotFrom(val.q, val.r, r, c, 0), elem(mat, r, c), Tol)


\* A matrix from its rows of numbers, stored column-major.
MatOf(rows) ==
  [row |-> Len(rows), column |-> Len(rows[1]),
   data |-> [k \in 0..(Len(rows) * Len(rows[1]) - 1) |->
               rows[(k % Len(rows)) + 1][(k \div Len(rows)) + 1]]]

\* A literal written n / 2^k, and a quotient of two integer literals, as
\* the element type holds them.
Lit(n, k) == Rnd(Norm(n, -k))
Quot(n, d) == FDiv(Rnd(Num(n)), Rnd(Num(d)))

Lu3x3 == mat64(<<<<2, 3, 4>>, <<4, 7, 5>>, <<3, 9, 5>>>>)

\* C14: in the wider element type lu of [[2,3,4],[4,7,5],[3,9,5]] returns
\* p = [1,2,0], l = [[1,0,0],[0.75,1,0],[0.5,-2/15,1]] and
\* u = [[4,7,5],[0,3.75,1.25],[0,0,5/3]], and mul(l, u) is the input with
\* its rows in the order 1, 2, 0.
C14_Lu3x3 ==
  (op = "lu" /\ res = "Ok" /\ mat = Lu3x3 /\ digits = WidePrec) =>
    /\ p = [k \in 0..2 |-> <<1, 2, 0>>[k + 1]]
    /\ l = MatOf(<< <<One, Zero, Zero>>,
                    <<Lit(3, 2), One, Zero>>,
                    <<Lit(1, 1), Quot(-2, 15), One>> >>)
    /\ u = MatOf(<< <<Num(4), Num(7), Num(5)>>,
                    <<Zero, Lit(15, 2), Lit(5, 2)>>,
                    <<Zero, Zero, Quot(5, 3)>> >>)
    /\ mul(l, u) = [res |-> "Ok",
                    val |-> mat64(<<<<4, 7, 5>>, <<3, 9, 5>>, <<2, 3, 4>>>>)]

C14_Witness ==
  /\ op = "lu" /\ res = "Ok" /\ mat = Lu3x3 /\ digits = WidePrec
  /\ u = MatOf(<< <<Num(4), Num(7), Num(5)>>,
                  <<Zero, Lit(15, 2), Lit(5, 2)>>,
                  <<Zero, Zero, Quot(5, 3)>> >>)


(***************************************************************************)
(* Properties of the constructors and of the functions of matrix/mod.rs.   *)
(***************************************************************************)
\* The data vector has exactly row * column elements.
WellFormed(m) == DOMAIN m.data = 0..(m.row * m.column - 1)

MatrixOps ==
  {"new", "from_vec", "zero", "identity", "clone", "add", "sub", "neg", "mul",
   "tr", "hcat", "vcat", "elemwise", "elem_mut"}

\* C15: every matrix returned by new, from_vec, zero, identity, clone, add,
\* sub, neg, mul, tr, hcat, vcat, elemwise or left by an element write has
\* a data vector of exactly row * column elements, and new and from_vec
\* panic when the vector they are given has any other length.
C15_DataLength ==
  /\ (op \in MatrixOps /\ res = "Ok") => WellFormed(val)
  /\ (op \in {"new", "from_vec"} /\ DataLen(mat.data) # mat.row * mat.column) =>
       res = "panic"

C15_Witness ==
  /\ op = "new"
  /\ DataLen(mat.data) > mat.row * mat.column
  /\ res = "panic"


\* C16: for every matrix A of any shape, tr(A) has the shape of A exchanged
\* and its element (c, r) is A's element (r, c), and tr(tr(A)) is A again,
\* in shape and in every element.
C16_TransposeTwice ==
  (op = "tr" /\ res = "Ok") =>
    /\ val.row = mat.column /\ val.column = mat.row
    /\ WellFormed(val)
    /\ \A r \in 0..(mat.row - 1), c \in 0..(mat.column - 1) :
         elem(val, c, r) = elem(mat, r, c)
    /\ tr(val) = mat

C16_Witness ==
  /\ op = "tr" /\ res = "Ok"
  /\ mat.row = 2 /\ mat.column = 3
  /\ elem(mat, 0, 1) # elem(mat, 1, 0)
  /\ tr(val) = mat


\* Ones exactly on the diagonal of a square matrix, zeros elsewhere.
IsIdentity(m) ==
  /\ m.row = m.column
  /\ WellFormed(m)
  /\ \A r, c \in 0..(m.row - 1) : elem(m, r, c) = Delta(r, c)

\* C17, as claimed: for every n x k matrix A, mul(identity(n), A) returns
\* Ok(A), and identity(n) has ones exactly on the diagonal.
C17_IdentityTimesAny ==
  /\ op = "identity" => (val.row = mat.row /\ IsIdentity(val))
  /\ (op = "mul" /\ IsIdentity(mat) /\ mat.column = rhs.row) =>
       (res = "Ok" /\ val = rhs)

\* C17, amended: for every n x k matrix A that holds no NaN,
\* mul(identity(n), A) returns Ok(A), and identity(n) has ones exactly on
\* the diagonal.
C17_IdentityTimesNumbers ==
  /\ op = "identity" => (val.row = mat.row /\ IsIdentity(val))
  /\ (op = "mul" /\ IsIdentity(mat) /\ mat.column = rhs.row /\ NoNaN(rhs)) =>
       (res = "Ok" /\ val = rhs)

C17_Witness ==
  /\ op = "mul" /\ IsIdentity(mat) /\ mat.row = 3
  /\ rhs.row = 3 /\ rhs.column = 2 /\ NoNaN(rhs)
  /\ elem(rhs, 0, 0) = Third /\ elem(rhs, 2, 1) = One
  /\ res = "Ok" /\ val = rhs


Tiny(x) == x # Zero /\ FLt(FAbs(x), LuTol)

\* Step s.i of lu tests a tiny number: as the pivot, or as the entry of
\* column i that decides whether a row is eliminated.
TinyAt(s) == \E r \in 0..(s.a.row - 1) : Tiny(elem(s.a, r, s.i))

\* Some step of lu, from the locals s on, tests a tiny number.
RECURSIVE TinySeen(_)
TinySeen(s) ==
  IF s.status # "running" \/ s.i >= s.a.row THEN FALSE
  ELSE TinyAt(s) \/ TinySeen(LuStep("lu", s))

\* What a caller sees of a decomposition: the error kind, or l, u and p.
Outcome(s) ==
  IF s.status = "Ok" THEN <<"Ok", s.l, s.u, s.p>> ELSE <<s.status>>

LuFinished == op \in LuKinds /\ res \in {"Ok", "SingularMatrix", "ShapeMismatching"}

Pending == {r \in Rows : inv_p[r] >= i}

\* |x| >= |y|
AbsGe(x, y) == FGe(FAbs(x), FAbs(y))

\* C20: at every elimination step i of lu that does not fail, the pivot,
\* which the step puts at p[i], is a row not yet moved into u; its entry in
\* column i is of the largest absolute value among those rows, and it is
\* the first of the rows with that value; the rows moved into u earlier are
\* all zero in the working copy; and the step leaves p[0..i) and the rows
\* 0..i of u as they are.
C20_PivotStep ==
  [][ (op = "lu" /\ res = "none" /\ i < a.row /\ res' = "none") =>
        /\ i' = i + 1
        /\ p'[i] \in Pending
        /\ \A r \in Pending :
             /\ AbsGe(elem(a, p'[i], i), elem(a, r, i))
             /\ AbsGe(elem(a, r, i), elem(a, p'[i], i)) => r >= p'[i]
        /\ \A r \in Rows \ Pending : \A c \in Rows : elem(a, r, c) = Zero
        /\ \A k \in 0..(i - 1) :
             /\ p'[k] = p[k]
             /\ \A c \in Rows : elem(u', k, c) = elem(u, k, c)
        /\ \A c \in Rows : elem(u', i, c) = elem(a, p'[i], c)
    ]_vars

\* Two steps done on a 3x3 input: the second pivot was not the row in place,
\* and the first step had to choose between rows of equal absolute value.
C20_Witness ==
  /\ op = "lu" /\ res = "none" /\ a.row = 3 /\ i = 2
  /\ p[1] # 1
  /\ \E r \in Rows \ {p[0]} : AbsGe(elem(mat, r, 0), elem(mat, p[0], 0))


(***************************************************************************)
(* Properties of permutation_order.                                        *)
(***************************************************************************)
RECURSIVE Follow(_, _, _)
\* Where j applications of q take k.
Follow(q, k, j) == IF j = 0 THEN k ELSE Follow(q, q[k], j - 1)

\* The cycle of q that k lies on.
CycleOf(q, k) == {Follow(q, k, j) : j \in 0..Cardinality(DOMAIN q)}

\* The number of cycles of q, fixed points included.
Cycles(q) == Cardinality({CycleOf(q, k) : k \in DOMAIN q})

Length == Cardinality(DOMAIN order.p)

\* No more than n - 1 exchanges, and none for the empty vector.
WithinExchanges(ans, n) == ans = 0 \/ ans <= n - 1

\* While permutation_order runs: a is a permutation in which every exchange
\* has closed one more cycle, and p is the vector that was passed.
OrderRuns ==
  (op = "permutation_order") =>
    /\ order.p \in PermutationsOf(Length)
    /\ order.a \in PermutationsOf(Length)
    /\ order.i \in 0..Length
    /\ WithinExchanges(order.ans, Length)
    /\ Cycles(order.a) = Cycles(order.p) + order.ans

\* What permutation_order returns.
OrderReturned ==
  (op = "permutation_order" /\ res = "Ok") =>
    /\ order.ans = Length - Cycles(order.p)
    /\ order.ans % 2 = Inversions(order.p, Length) % 2
    /\ order.ans = permutation_order(order.p)

\* The caller's vector is the same after every step of the function.
OrderKeepsP == [][op = "permutation_order" => order'.p = order.p]_vars

\* C21: for every permutation p of 0..n, permutation_order(p) comes to its
\* return, having made at most n - 1 exchanges; it returns n minus the
\* number of cycles of p, which is of the parity of p; and the exchanges are
\* made in the copy a, so that the caller's p is as it was.
C21_PermutationOrder ==
  /\ []OrderRuns
  /\ []OrderReturned
  /\ OrderKeepsP
  /\ (op = "permutation_order") ~> (op = "permutation_order" /\ res = "Ok")

\* A cycle of all of 0..3 has been brought to the identity by three
\* exchanges, and the function has returned.
C21_Witness ==
  /\ op = "permutation_order" /\ res = "Ok"
  /\ Length = 4 /\ Cycles(order.p) = 1
  /\ order.ans = 3
  /\ order.a # order.p


(***************************************************************************)
(* The fallible operations on the degenerate sizes.                        *)
(***************************************************************************)
Fallible == {"lu", "lu_decomp", "det", "qr_gram_schmidt", "qr_househoulder"}

\* The tags of JolinError that these operations return.
ErrorTags == {"ShapeMismatching", "SingularMatrix"}

\* The 0x0 matrix and the 1x1 matrices.
Degenerate(m) == m.row = m.column /\ m.row <= 1

\* C22: called with the 0x0 matrix or with a 1x1 matrix, each of lu,
\* Mat64::lu_decomp, det, qr_gram_schmidt and qr_househoulder is either
\* still running or has returned Ok or an error tag: none of them aborts.
C22_DegenerateSizesReturn ==
  (op \in Fallible /\ Degenerate(mat)) => res \in {"none", "Ok"} \cup ErrorTags

=============================================================================
